---------------------------- MODULE Spec2Model ----------------------------
(***************************************************************************)
(* A model of src/solutions.py: a Streamlit application that reads the     *)
(* text of an uploaded PDF, sends it to a chat-completion endpoint,        *)
(* validates the JSON answer against DocumentStructure and writes the      *)
(* validated records to a spreadsheet.                                     *)
(*                                                                         *)
(* Text is a sequence of tokens (strings).  A token is either a run of     *)
(* whitespace (" ", "\n") or a run of text without whitespace at its ends. *)
(* A JSON document is a tree of records; a JSON object is a record over a  *)
(* fixed universe of member names in which the scalar of type "absent"     *)
(* stands for a member the object does not have.                           *)
(***************************************************************************)
EXTENDS Integers, Sequences, FiniteSets, TLC

(***************************************************************************)
(* Bounds of the model.                                                    *)
(***************************************************************************)
\* Largest number of pages of a PDF in the text-extraction specification.
MaxPages == 2
\* Largest length of the extracted_data array in the validation specification.
MaxRows == 2
\* Largest number of records handed to create_excel_bytes on its own.
MaxRecords == 3

(***************************************************************************)
(* PDF documents and read_pdf_text.                                        *)
(***************************************************************************)
\* Tokens that str.strip() removes from the two ends of a text.
Whitespace == {" ", "\n"}

\* What page.extract_text() may give: <<>> is "no text" (None or "").
PageTexts == { <<>>, <<"Revenue">>, <<" ", "grew", "\n">>, <<"\n">> }

\* A PDF: raises says that PdfReader(...) or extract_text() raises.
SeqsUpTo(S, n) == UNION { [1..k -> S] : k \in 0..n }

Pdfs(n) == { [raises |-> TRUE, pages |-> <<>>] }
             \cup { [raises |-> FALSE, pages |-> p] : p \in SeqsUpTo(PageTexts, n) }

\* "(No readable text on this page)"
Placeholder == "(No readable text on this page)"

\* "--- Page {i+1} ---", the line of the marker f"\n--- Page {i+1} ---\n"
MarkerLine(n) == "--- Page " \o ToString(n) \o " ---"

PageMarker(n) == << "\n", MarkerLine(n), "\n" >>

\* str.strip(): drop the whitespace at both ends.
RECURSIVE LStrip(_)
LStrip(t) == IF t # <<>> /\ Head(t) \in Whitespace THEN LStrip(Tail(t)) ELSE t

RECURSIVE RStrip(_)
RStrip(t) == IF t # <<>> /\ t[Len(t)] \in Whitespace
             THEN RStrip(SubSeq(t, 1, Len(t) - 1)) ELSE t

strip(t) == RStrip(LStrip(t))

\* Mutant: the placeholder is never written, a textless page leaves only
\* its marker.
PageBodyNoPlaceholder(page_text) == page_text

\* page_text if page_text else "(No readable text on this page)"
PageBody(page_text) == IF page_text # <<>> THEN page_text ELSE << Placeholder >>

\* The loop over enumerate(reader.pages): i is the 0-based index of the
\* next page, text the accumulator.
RECURSIVE ReadPages(_, _, _)
ReadPages(pages, i, text) ==
    IF i >= Len(pages) THEN text
    ELSE ReadPages(pages, i + 1, text \o PageMarker(i + 1) \o PageBody(pages[i + 1]))

\* read_pdf_text: the text returned and whether st.error was called.
read_pdf_text(pdf) ==
    IF pdf.raises
    THEN [text |-> <<>>, error |-> TRUE]
    ELSE [text |-> strip(ReadPages(pdf.pages, 0, <<>>)), error |-> FALSE]

(***************************************************************************)
(* JSON responses and DocumentStructure.model_validate_json.               *)
(***************************************************************************)
Absent == [t |-> "absent", s |-> ""]
Str(s) == [t |-> "string", s |-> s]
Num == [t |-> "number", s |-> ""]
Null == [t |-> "null", s |-> ""]
\* A member whose value is the empty array, as in {"wrong_key": []}.
EmptyArray == [t |-> "array", s |-> ""]

\* An element that is a JSON object with the given members.
Obj(k, v, c, n, x) ==
    [t |-> "object", Key |-> k, Value |-> v, Comment |-> c, comment |-> n, Extra |-> x]

\* An element that is not a JSON object.
NonObj(t) ==
    [t |-> t, Key |-> Absent, Value |-> Absent, Comment |-> Absent,
     comment |-> Absent, Extra |-> Absent]

\* Rows with exactly the wire members Key, Value, Comment, each a string.
WireRows == { Obj(Str(k), Str("Revenue grew 20%"), Str(c), Absent, Absent) :
                 k \in {"Revenue Growth", "Quarter"}, c \in {"", "in Q3."} }

BaseRow == Obj(Str("Revenue Growth"), Str("Revenue grew 20%"), Str("in Q3."), Absent, Absent)

\* Rows that differ from BaseRow in one respect.
VariantRows ==
    { [BaseRow EXCEPT !.Key = Absent], [BaseRow EXCEPT !.Key = Num],
      [BaseRow EXCEPT !.Value = Absent], [BaseRow EXCEPT !.Value = Null],
      [BaseRow EXCEPT !.Comment = Absent], [BaseRow EXCEPT !.Comment = Num],
      [BaseRow EXCEPT !.Extra = Str("x")],
      [BaseRow EXCEPT !.Comment = Absent, !.comment = Str("by name")],
      [BaseRow EXCEPT !.comment = Str("by name")],
      [BaseRow EXCEPT !.Comment = Null, !.comment = Str("by name")],
      NonObj("null"), NonObj("string") }

Rows == WireRows \cup VariantRows

\* The value of the member extracted_data of the top-level object.
Arr(items) == [t |-> "array", items |-> items]
NonArr(t) == [t |-> t, items |-> <<>>]

\* The text of a response: syntax is "malformed" for text that is not JSON,
\* else the type of the top-level JSON value.
Doc(syntax, data, other) == [syntax |-> syntax, extracted_data |-> data, other |-> other]

NonObjDoc(syntax) == Doc(syntax, NonArr("absent"), Absent)

Docs(n) ==
    { Doc("object", Arr(items), other) : items \in SeqsUpTo(Rows, n), other \in {Absent, Str("x")} }
    \cup { Doc("object", NonArr(t), other) :
              t \in {"absent", "null", "string", "object"}, other \in {Absent, EmptyArray} }
    \cup { NonObjDoc(s) : s \in {"malformed", "array", "string", "null"} }

\* An ExtractedPair: the fields Key, Value and comment.
ExtractedPair(k, v, c) == [Key |-> k, Value |-> v, comment |-> c]

\* The member that populates the field comment: alias "Comment" first and,
\* with populate_by_name=True, the field name "comment" when the alias is
\* not there.
CommentMember(e) == IF e.Comment.t # "absent" THEN e.Comment ELSE e.comment

\* Whether an array element validates as an ExtractedPair.
ValidElement(e) ==
    /\ e.t = "object"
    /\ e.Key.t = "string"
    /\ e.Value.t = "string"
    /\ CommentMember(e).t = "string"

\* The ExtractedPair of an element that validates.
PairOf(e) == ExtractedPair(e.Key.s, e.Value.s, CommentMember(e).s)

\* Mutant: each validated element is put in front of the ones before it.
RECURSIVE ValidateItemsReversed(_, _, _)
ValidateItemsReversed(items, pairs, errors) ==
    IF items = <<>> THEN [pairs |-> pairs, errors |-> errors]
    ELSE IF ValidElement(Head(items))
         THEN ValidateItemsReversed(Tail(items), << PairOf(Head(items)) >> \o pairs, errors)
         ELSE ValidateItemsReversed(Tail(items), pairs, errors + 1)

\* list[ExtractedPair]: the elements validated in order; errors counts the
\* elements that do not validate.
RECURSIVE ValidateItems(_, _, _)
ValidateItems(items, pairs, errors) ==
    IF items = <<>> THEN [pairs |-> pairs, errors |-> errors]
    ELSE IF ValidElement(Head(items))
         THEN ValidateItems(Tail(items), Append(pairs, PairOf(Head(items))), errors)
         ELSE ValidateItems(Tail(items), pairs, errors + 1)

\* Mutant: an element that does not validate is left out and the rest is
\* accepted.
ValidateSkippingBadRows(doc) ==
    IF doc.syntax = "object" /\ doc.extracted_data.t = "array"
    THEN [raised |-> FALSE,
          extracted_data |-> ValidateItems(doc.extracted_data.items, <<>>, 0).pairs]
    ELSE [raised |-> TRUE, extracted_data |-> <<>>]

\* DocumentStructure.model_validate_json(json_string): raised tells that a
\* ValidationError was raised, else extracted_data is the validated list.
model_validate_json(doc) ==
    IF doc.syntax = "object" /\ doc.extracted_data.t = "array"
    THEN LET r == ValidateItems(doc.extracted_data.items, <<>>, 0)
         IN  IF r.errors = 0
             THEN [raised |-> FALSE, extracted_data |-> r.pairs]
             ELSE [raised |-> TRUE, extracted_data |-> <<>>]
    ELSE [raised |-> TRUE, extracted_data |-> <<>>]

(***************************************************************************)
(* create_excel_bytes.                                                     *)
(***************************************************************************)
\* headers = ["Key", "Value", "Comment"]
headers == << "Key", "Value", "Comment" >>

\* item.model_dump(by_alias=True): the field comment under its alias.
model_dump(item) == [Key |-> item.Key, Value |-> item.Value, Comment |-> item.comment]

\* Mutant: the row is read by field name, and the columns Value and Comment
\* change places.
SheetRowSwapped(item) ==
    LET row_dict == model_dump(item)
    IN  << row_dict.Key, row_dict.Comment, row_dict.Value >>

\* row = [row_dict['Key'], row_dict['Value'], row_dict['Comment']]
SheetRow(item) ==
    LET row_dict == model_dump(item)
    IN  << row_dict.Key, row_dict.Value, row_dict.Comment >>

\* for item in extracted_data: ws.append(row)
RECURSIVE AppendRows(_, _)
AppendRows(ws, items) ==
    IF items = <<>> THEN ws
    ELSE AppendRows(Append(ws, SheetRow(Head(items))), Tail(items))

\* create_excel_bytes: the rows of the one sheet of the workbook saved.
create_excel_bytes(extracted_data) ==
    [sheet |-> AppendRows(<< headers >>, extracted_data)]

\* The bytes when create_excel_bytes was not called.
NoBytes == [sheet |-> <<>>]

(***************************************************************************)
(* The Groq client and extract_data_with_llm.                              *)
(***************************************************************************)
\* os.environ.get("GROQ_API_KEY"): unset, empty, a key the service rejects,
\* a key it accepts.  groq_raises: Groq(api_key=...) raises.
Environments ==
    [ GROQ_API_KEY : { [set |-> FALSE, value |-> ""], [set |-> TRUE, value |-> ""],
                       [set |-> TRUE, value |-> "gsk_revoked"],
                       [set |-> TRUE, value |-> "gsk_live"] },
      groq_raises : BOOLEAN ]

KeyIsValid(e) == e.GROQ_API_KEY.set /\ e.GROQ_API_KEY.value = "gsk_live"

\* if GROQ_API_KEY: try: client = Groq(api_key=GROQ_API_KEY)
GroqClient(e) ==
    IF e.GROQ_API_KEY.set /\ e.GROQ_API_KEY.value # "" /\ ~e.groq_raises
    THEN "Groq" ELSE "None"

\* What a request gives: raised (network or authentication error) or the
\* content of choices[0].message.
Raised == [raised |-> TRUE, content |-> NonObjDoc("malformed")]
Content(doc) == [raised |-> FALSE, content |-> doc]

\* generate_extraction_prompt: the document text between the fixed parts.
PromptHead == "You are an advanced AI Data Structuring and Extraction Engine."
PromptTail == "---"
generate_extraction_prompt(document_text) ==
    << PromptHead >> \o document_text \o << PromptTail >>

\* client.chat.completions.create(...): a key the service rejects makes
\* the request fail, else the endpoint answers.
chat_completions_create(e, answer) ==
    IF GroqClient(e) = "Groq" /\ KeyIsValid(e) THEN answer ELSE Raised

\* The value extract_data_with_llm returns: None or a list.
None == [none |-> TRUE, list |-> <<>>]
List(l) == [none |-> FALSE, list |-> l]

\* "if structured_data:" None and the empty list are both false.
Truthy(v) == ~v.none /\ Len(v.list) > 0

\* Mutant: the except branch returns None without st.error.
extract_data_with_llm_silent(document_text, e, answer) ==
    LET system_prompt == generate_extraction_prompt(document_text)
        chat_completion == chat_completions_create(e, answer)
        data_model == model_validate_json(chat_completion.content)
        failed == chat_completion.raised \/ data_model.raised
    IN  [ requests |-> 1,
          request |-> system_prompt,
          received |-> chat_completion,
          result |-> IF failed THEN None ELSE List(data_model.extracted_data),
          error |-> FALSE,
          progress |-> IF failed THEN "empty" ELSE "95%" ]

\* Mutant: a failed request or validation is tried once more.
extract_data_with_llm_retrying(document_text, e, answer) ==
    LET system_prompt == generate_extraction_prompt(document_text)
        chat_completion == chat_completions_create(e, answer)
        data_model == model_validate_json(chat_completion.content)
        failed == chat_completion.raised \/ data_model.raised
    IN  [ requests |-> IF failed THEN 2 ELSE 1,
          request |-> system_prompt,
          received |-> chat_completion,
          result |-> IF failed THEN None ELSE List(data_model.extracted_data),
          error |-> failed,
          progress |-> IF failed THEN "empty" ELSE "95%" ]

\* extract_data_with_llm: requests counts the calls of create, request is
\* the system prompt sent, received what create gave, result the value
\* returned, error whether st.error was called, progress the progress bar.
extract_data_with_llm(document_text, e, answer) ==
    LET system_prompt == generate_extraction_prompt(document_text)
        chat_completion == chat_completions_create(e, answer)
        data_model == model_validate_json(chat_completion.content)
        failed == chat_completion.raised \/ data_model.raised
    IN  [ requests |-> 1,
          request |-> system_prompt,
          received |-> chat_completion,
          result |-> IF failed THEN None ELSE List(data_model.extracted_data),
          error |-> failed,
          progress |-> IF failed THEN "empty" ELSE "95%" ]

(***************************************************************************)
(* The application: main() runs from its first line on every interaction.  *)
(***************************************************************************)
VARIABLES
    env,            \* the environment of the process (GROQ_API_KEY, the Groq library)
    client,         \* the module's client: "Groq" or "None"
    endpoint,       \* what the endpoint answers to a request
    uploaded_file,  \* the value of the file_uploader widget
    session_state,  \* st.session_state: pdf_content and last_uploaded_file
    ui,             \* what the last run of main() put on the page
    run,            \* what the last run of main() called and computed
    ever_sent       \* whether any run has sent a request to the endpoint

vars == << env, client, endpoint, uploaded_file, session_state, ui, run, ever_sent >>

\* uploaded_file is None.
NoFile == [present |-> FALSE, name |-> "", pdf |-> [raises |-> FALSE, pages |-> <<>>]]
File(name, pdf) == [present |-> TRUE, name |-> name, pdf |-> pdf]

\* A session with neither key set.
NewSession == [has_pdf_content |-> FALSE, pdf_content |-> <<>>, last_uploaded_file |-> ""]

\* The page before main() has run.
BlankPage ==
    [ rendered |-> FALSE, init_error |-> FALSE, sidebar |-> "", disabled_warning |-> FALSE,
      file_uploader |-> FALSE, file_success |-> "", btn_preview |-> FALSE,
      btn_process |-> FALSE, pdf_error |-> FALSE, preview |-> FALSE,
      extraction_warning |-> FALSE, llm_error |-> FALSE, results |-> FALSE,
      captured |-> 0, dataframe |-> <<>>, download_button |-> FALSE,
      download_data |-> NoBytes, progress |-> "" ]

\* A run of main() that did not reach the processing step.
NoRun ==
    [ process_button |-> FALSE, read_pdf |-> FALSE, document_text |-> <<>>,
      requests |-> 0, request |-> <<>>, received |-> Raised,
      structured_data |-> None, writer_calls |-> 0, excel_bytes |-> NoBytes ]

\* Mutant: the application goes on without a client.
NeverDisabled(c) == FALSE

\* "if client is None: ... return"
AppDisabled(c) == c = "None"

\* 'pdf_content' not in st.session_state
\*     or st.session_state.get('last_uploaded_file') != uploaded_file.name
NeedsRefresh(session, file) ==
    ~session.has_pdf_content \/ session.last_uploaded_file # file.name

\* "if not pdf_content:"
TextMissing(pdf_content) == pdf_content = <<>>

\* One run of main(): file is the value of the file_uploader, and the two
\* flags say which button was clicked.
Main(file, preview_clicked, process_clicked) ==
    LET disabled == AppDisabled(client)
        has_file == ~disabled /\ file.present
        refresh == has_file /\ NeedsRefresh(session_state, file)
        read == read_pdf_text(file.pdf)
        session == IF refresh
                   THEN [has_pdf_content |-> TRUE, pdf_content |-> read.text,
                         last_uploaded_file |-> file.name]
                   ELSE session_state
        process_button == has_file /\ process_clicked
        pdf_content == session.pdf_content
        halted == process_button /\ TextMissing(pdf_content)
        proceed == process_button /\ ~TextMissing(pdf_content)
        llm == extract_data_with_llm(pdf_content, env, endpoint)
        structured_data == llm.result
        built == proceed /\ Truthy(structured_data)
        excel_bytes == create_excel_bytes(structured_data.list)
    IN  /\ uploaded_file' = IF disabled THEN NoFile ELSE file
        /\ session_state' = session
        /\ ui' = [ rendered |-> TRUE,
                   init_error |-> env.GROQ_API_KEY.set /\ env.GROQ_API_KEY.value # ""
                                     /\ env.groq_raises,
                   sidebar |-> IF client # "None" THEN "API Status: Connected to GroqCloud"
                               ELSE "API Status: Disconnected (Key Missing)",
                   disabled_warning |-> disabled,
                   file_uploader |-> ~disabled,
                   file_success |-> IF has_file THEN file.name ELSE "",
                   btn_preview |-> has_file,
                   btn_process |-> has_file,
                   pdf_error |-> refresh /\ read.error,
                   preview |-> has_file /\ preview_clicked,
                   extraction_warning |-> halted,
                   llm_error |-> proceed /\ llm.error,
                   results |-> built,
                   captured |-> IF built THEN Len(structured_data.list) ELSE 0,
                   dataframe |-> IF built
                                 THEN [i \in 1..Len(structured_data.list) |->
                                          model_dump(structured_data.list[i])]
                                 ELSE <<>>,
                   download_button |-> built,
                   download_data |-> IF built THEN excel_bytes ELSE NoBytes,
                   progress |-> IF ~proceed THEN ""
                                ELSE IF built THEN "empty" ELSE llm.progress ]
        /\ run' = IF proceed
                  THEN [ process_button |-> TRUE, read_pdf |-> refresh,
                         document_text |-> pdf_content,
                         requests |-> llm.requests, request |-> llm.request,
                         received |-> llm.received,
                         structured_data |-> structured_data,
                         writer_calls |-> IF built THEN 1 ELSE 0,
                         excel_bytes |-> IF built THEN excel_bytes ELSE NoBytes ]
                  ELSE [NoRun EXCEPT !.process_button = process_button,
                                     !.read_pdf = refresh]
        /\ ever_sent' = (ever_sent \/ (proceed /\ llm.requests > 0))
        /\ UNCHANGED << env, client, endpoint >>

\* The first run of main() in a session.
Load == /\ ~ui.rendered
        /\ Main(NoFile, FALSE, FALSE)

\* The user chooses a file in the file_uploader.
Upload(f) == /\ ui.file_uploader
             /\ Main(f, FALSE, FALSE)

\* The user removes the file from the file_uploader.
Clear == /\ ui.file_uploader
         /\ uploaded_file.present
         /\ Main(NoFile, FALSE, FALSE)

\* The user clicks "2. Preview Extracted Text".
Preview == /\ ui.btn_preview
           /\ Main(uploaded_file, TRUE, FALSE)

\* The user clicks "3. Run Data Structuring (LLM)".
Run == /\ ui.btn_process
       /\ Main(uploaded_file, FALSE, TRUE)

\* The user clicks the download button: the script runs again.
Download == /\ ui.download_button
            /\ Main(uploaded_file, FALSE, FALSE)

\* The endpoint's next answer changes.
EndpointAnswers(a) == /\ endpoint' = a
                      /\ endpoint # a
                      /\ UNCHANGED << env, client, uploaded_file, session_state, ui, run, ever_sent >>

(***************************************************************************)
(* Spec: the application with a few files and answers.                     *)
(***************************************************************************)
AppFiles == { File(n, p) : n \in {"a.pdf", "b.pdf"}, p \in Pdfs(1) }

AppAnswers ==
    { Raised, Content(NonObjDoc("malformed")),
      Content(Doc("object", NonArr("absent"), EmptyArray)),
      Content(Doc("object", NonArr("null"), Absent)),
      Content(Doc("object", Arr(<<>>), Absent)),
      Content(Doc("object", Arr(<< BaseRow >>), Absent)),
      Content(Doc("object", Arr(<< [BaseRow EXCEPT !.Comment = Absent] >>), Absent)),
      Content(Doc("object", Arr(<< BaseRow, [BaseRow EXCEPT !.Key = Absent] >>), Absent)) }

InitWith(envs, answers) ==
    /\ env \in envs
    /\ client = GroqClient(env)
    /\ endpoint \in answers
    /\ uploaded_file = NoFile
    /\ session_state = NewSession
    /\ ui = BlankPage
    /\ run = NoRun
    /\ ever_sent = FALSE

Init == InitWith(Environments, {Raised})

UploadApp == \E f \in AppFiles : Upload(f)

EndpointChanges == \E a \in AppAnswers : EndpointAnswers(a)

Next == Load \/ UploadApp \/ Clear \/ Preview \/ Run \/ Download \/ EndpointChanges

Spec == Init /\ [][Next]_vars

(***************************************************************************)
(* SpecPdf: uploads of every PDF of up to MaxPages pages.                  *)
(***************************************************************************)
LiveEnv == [GROQ_API_KEY |-> [set |-> TRUE, value |-> "gsk_live"], groq_raises |-> FALSE]

PdfFiles == { File("a.pdf", p) : p \in Pdfs(MaxPages) }

InitPdf == InitWith({LiveEnv}, {Raised})

UploadPdf == \E f \in PdfFiles : Upload(f)

NextPdf == Load \/ UploadPdf

SpecPdf == InitPdf /\ [][NextPdf]_vars

(***************************************************************************)
(* SpecValidate: one file, and the endpoint answers with any response of   *)
(* up to MaxRows rows.                                                     *)
(***************************************************************************)
OnePage == File("a.pdf", [raises |-> FALSE, pages |-> << <<"Revenue">> >>])

Answers == { Raised } \cup { Content(d) : d \in Docs(MaxRows) }

InitValidate == InitWith({LiveEnv}, Answers)

UploadOne == Upload(OnePage)

NextValidate == Load \/ UploadOne \/ Run

SpecValidate == InitValidate /\ [][NextValidate]_vars

(***************************************************************************)
(* SpecExcel: create_excel_bytes called on every list of up to MaxRecords  *)
(* records, the empty list included.                                       *)
(***************************************************************************)
Pairs == { PairOf(e) : e \in { r \in Rows : ValidElement(r) } }

InitExcel ==
    /\ env = LiveEnv
    /\ client = GroqClient(env)
    /\ endpoint = Raised
    /\ uploaded_file = NoFile
    /\ session_state = NewSession
    /\ ui = BlankPage
    /\ run \in { [NoRun EXCEPT !.structured_data = List(l)] : l \in SeqsUpTo(Pairs, MaxRecords) }
    /\ ever_sent = FALSE

\* excel_bytes = create_excel_bytes(structured_data, progress_bar)
CallCreateExcelBytes ==
    /\ run.writer_calls = 0
    /\ run' = [run EXCEPT !.writer_calls = 1,
                          !.excel_bytes = create_excel_bytes(run.structured_data.list)]
    /\ ui' = [ui EXCEPT !.progress = "100%"]
    /\ UNCHANGED << env, client, endpoint, uploaded_file, session_state, ever_sent >>

NextExcel == CallCreateExcelBytes

SpecExcel == InitExcel /\ [][NextExcel]_vars

(***************************************************************************)
(* The claims.                                                             *)
(***************************************************************************)
\* The last run of main() sent a request and got this document back.
Received == run.received.content

\* A row lacks one of the three required fields.
RowLacksField(e) ==
    \/ e.Key.t = "absent"
    \/ e.Value.t = "absent"
    \/ (e.Comment.t = "absent" /\ e.comment.t = "absent")

\* The failures of the LLM step that C1 lists: the request raised, the
\* text is not JSON, extracted_data is missing or is not an array, a row
\* lacks a required field.
ListedFailure(r) ==
    \/ r.raised
    \/ r.content.syntax = "malformed"
    \/ r.content.extracted_data.t # "array"
    \/ \E i \in 1..Len(r.content.extracted_data.items) :
           RowLacksField(r.content.extracted_data.items[i])

\* C1: a run whose LLM step fails (the request raises, the response is not
\* valid JSON, extracted_data is missing or no array, a row lacks a required
\* field) shows an error, yields no ExtractedPair sequence, does not call
\* the spreadsheet writer and offers no download.
C1_FailedRunSurfacesError ==
    (run.requests > 0 /\ (ListedFailure(run.received) \/ run.structured_data.none))
        => /\ ui.llm_error
           /\ run.structured_data = None
           /\ run.writer_calls = 0
           /\ run.excel_bytes = NoBytes
           /\ ~ui.results
           /\ ~ui.download_button

\* A run got a JSON object whose only row lacks Comment, and showed the error.
C1_Witness ==
    /\ run.requests = 1
    /\ ~run.received.raised
    /\ Received.extracted_data.t = "array"
    /\ Len(Received.extracted_data.items) = 1
    /\ Received.extracted_data.items[1].Key.t = "string"
    /\ RowLacksField(Received.extracted_data.items[1])
    /\ ui.llm_error

\* C2: a run on an uploaded file for which the text extractor gives the
\* empty string sends no request and produces no spreadsheet.
C2_EmptyExtractionHalts ==
    (run.process_button /\ uploaded_file.present
        /\ read_pdf_text(uploaded_file.pdf).text = <<>>)
        => /\ run.requests = 0
           /\ run.writer_calls = 0
           /\ ~ui.download_button

\* C3: a run sends exactly one request when the extracted text it holds is
\* not empty, none when it is empty, and never a second one, whether the
\* request succeeds, fails or its response fails validation.
C3_OneRequestPerRun ==
    /\ run.requests <= 1
    /\ run.process_button =>
          run.requests = (IF session_state.pdf_content # <<>> THEN 1 ELSE 0)
    /\ ~run.process_button => run.requests = 0

\* A run whose request failed, and which sent one request.
C3_Witness ==
    /\ run.process_button
    /\ run.requests = 1
    /\ ui.llm_error
    /\ ~run.received.raised

\* C4: for a list of n records (n = 0 included) the sheet create_excel_bytes
\* writes has n + 1 rows, row 1 is Key, Value, Comment and row i + 1 holds
\* the key, value and comment of record i.
C4_SheetRows ==
    run.writer_calls = 1 =>
        LET records == run.structured_data.list
            sheet == run.excel_bytes.sheet
        IN  /\ Len(sheet) = Len(records) + 1
            /\ sheet[1] = << "Key", "Value", "Comment" >>
            /\ \A i \in 1..Len(records) :
                  sheet[i + 1] = << records[i].Key, records[i].Value, records[i].comment >>

\* The writer was called on three records of which the first two differ
\* and whose comment differs from its value.
C4_Witness ==
    /\ run.writer_calls = 1
    /\ Len(run.structured_data.list) = 3
    /\ run.structured_data.list[1] # run.structured_data.list[2]
    /\ run.structured_data.list[1].comment = ""
    /\ Len(run.excel_bytes.sheet) = 4

\* The writer was called on the empty list.
C4_WitnessEmpty ==
    /\ run.writer_calls = 1
    /\ run.structured_data.list = <<>>

\* A response matches the schema as the spec words it: an object with
\* exactly extracted_data, an array of objects with exactly the string
\* members Key, Value and Comment.
ExactElement(e) ==
    /\ e.t = "object"
    /\ e.Key.t = "string" /\ e.Value.t = "string" /\ e.Comment.t = "string"
    /\ e.comment.t = "absent" /\ e.Extra.t = "absent"

ExactShape(doc) ==
    /\ doc.syntax = "object"
    /\ doc.other.t = "absent"
    /\ doc.extracted_data.t = "array"
    /\ \A i \in 1..Len(doc.extracted_data.items) : ExactElement(doc.extracted_data.items[i])

\* C5: for a response that matches the schema the validator returns as
\* many records as the array has elements, record i carrying the Key, the
\* Value and (as comment) the Comment of element i.
C5_ValidatorPreservesRows ==
    (run.requests > 0 /\ ~run.received.raised /\ ExactShape(Received))
        => LET items == Received.extracted_data.items
               records == run.structured_data.list
           IN  /\ ~run.structured_data.none
               /\ Len(records) = Len(items)
               /\ \A i \in 1..Len(items) :
                     /\ records[i].Key = items[i].Key.s
                     /\ records[i].Value = items[i].Value.s
                     /\ records[i].comment = items[i].Comment.s

\* The validator returned two records with different keys.
C5_Witness ==
    /\ run.requests > 0 /\ ~run.received.raised /\ ExactShape(Received)
    /\ Len(run.structured_data.list) = 2
    /\ run.structured_data.list[1].Key # run.structured_data.list[2].Key
    /\ run.structured_data.list[1].comment # run.structured_data.list[2].comment

\* The validator accepted the response of the last run.
Accepted == run.requests > 0 /\ ~run.received.raised /\ ~run.structured_data.none

\* C6 as claimed: the validator accepts a response only if it has exactly
\* the member extracted_data, an array of objects with exactly the string
\* members Key, Value and Comment.
C6_AcceptsOnlyExactShape == Accepted => ExactShape(Received)

\* An element as the validator takes it: an object with string members Key
\* and Value and a string member Comment or, when Comment is not there, a
\* string member comment; other members do not count.
LenientElement(e) ==
    /\ e.t = "object"
    /\ e.Key.t = "string" /\ e.Value.t = "string"
    /\ \/ e.Comment.t = "string"
       \/ (e.Comment.t = "absent" /\ e.comment.t = "string")

LenientShape(doc) ==
    /\ doc.syntax = "object"
    /\ doc.extracted_data.t = "array"
    /\ \A i \in 1..Len(doc.extracted_data.items) : LenientElement(doc.extracted_data.items[i])

\* C6 as amended: the validator accepts a response exactly when it is an
\* object whose member extracted_data is an array of objects with string
\* members Key, Value and Comment (or comment when Comment is not there),
\* whatever other members there are; any other response is rejected as a
\* whole: no record is returned and nothing is shown or written.
C6_AcceptsExactlyLenientShape ==
    (run.requests > 0 /\ ~run.received.raised)
        => /\ ~run.structured_data.none <=> LenientShape(Received)
           /\ ~LenientShape(Received)
                 => /\ run.structured_data = None
                    /\ ui.llm_error
                    /\ ui.dataframe = <<>>
                    /\ run.writer_calls = 0

\* Two rows, the second with a number for Comment: rejected as a whole.
C6_Witness ==
    /\ run.requests > 0 /\ ~run.received.raised
    /\ Received.extracted_data.t = "array"
    /\ Len(Received.extracted_data.items) = 2
    /\ LenientElement(Received.extracted_data.items[1])
    /\ Received.extracted_data.items[2].Comment.t = "number"
    /\ run.structured_data = None

\* A response with a member beside extracted_data was accepted.
C6_WitnessAccepted ==
    /\ Accepted
    /\ Received.other.t # "absent"
    /\ Len(run.structured_data.list) = 1

\* The pages of the file whose text the last run of main() read.
PagesRead == uploaded_file.pdf.pages

\* The concatenation C7 describes, before stripping: for page i the marker
\* with the number i, then the text of the page or the placeholder.
RECURSIVE MarkedPages(_, _)
MarkedPages(pages, n) ==
    IF n = 0 THEN <<>>
    ELSE MarkedPages(pages, n - 1)
            \o << "\n", "--- Page " \o ToString(n) \o " ---", "\n" >>
            \o (IF Len(pages[n]) = 0 THEN << "(No readable text on this page)" >> ELSE pages[n])

\* text is full without the whitespace at its two ends.
IsStripped(text, full) ==
    /\ text = <<>> \/ (text[1] \notin {" ", "\n"} /\ text[Len(text)] \notin {" ", "\n"})
    /\ \E a \in 0..Len(full) : \E b \in 0..(Len(full) - a) :
          /\ text = SubSeq(full, a + 1, Len(full) - b)
          /\ \A k \in 1..a : full[k] \in {" ", "\n"}
          /\ \A k \in (Len(full) - b + 1)..Len(full) : full[k] \in {" ", "\n"}

\* The marker lines of a text, in the order they stand in it.
IsMarkerLine(tok) == \E n \in 1..(MaxPages + 1) : tok = "--- Page " \o ToString(n) \o " ---"

MarkerLines(text) == SelectSeq(text, IsMarkerLine)

\* The place of the marker line of page n in a text.
MarkerAt(text, n) ==
    CHOOSE k \in 1..Len(text) : text[k] = "--- Page " \o ToString(n) \o " ---"

\* The placeholder stands right after the marker of page n.
PlaceholderAfter(text, n) ==
    LET k == MarkerAt(text, n)
    IN  /\ k + 2 <= Len(text)
        /\ text[k + 1] = "\n"
        /\ text[k + 2] = "(No readable text on this page)"

\* C7: for a PDF of N pages that is read without an exception,
\* read_pdf_text gives the stripped concatenation of marker i and the text
\* of page i (the placeholder for a page without text) for i = 1..N: the
\* text holds exactly the N markers in ascending order, and the
\* placeholder stands after marker i exactly when page i has no text.
C7_ReadPdfText ==
    (run.read_pdf /\ ~uploaded_file.pdf.raises)
        => LET text == session_state.pdf_content
               N == Len(PagesRead)
           IN  /\ IsStripped(text, MarkedPages(PagesRead, N))
               /\ MarkerLines(text) = [i \in 1..N |-> "--- Page " \o ToString(i) \o " ---"]
               /\ \A i \in 1..N : PlaceholderAfter(text, i) <=> (PagesRead[i] = <<>>)
               /\ ~ui.pdf_error

\* A PDF of two pages was read, the first without text, the second with
\* whitespace at both ends of its text.
C7_Witness ==
    /\ run.read_pdf /\ ~uploaded_file.pdf.raises
    /\ Len(PagesRead) = 2
    /\ PagesRead[1] = <<>>
    /\ PagesRead[2] = << " ", "grew", "\n" >>
    /\ Len(session_state.pdf_content) = 8

\* The page says that the API is disconnected and offers nothing to run.
ShowsDisconnected ==
    ui.rendered => /\ ui.sidebar = "API Status: Disconnected (Key Missing)"
                   /\ ui.disabled_warning

\* The run button is not on the page, no run was started and no request
\* has been sent.
NothingToRun ==
    /\ ~ui.btn_process
    /\ ~run.process_button /\ run.requests = 0 /\ ~ever_sent

\* C8 as claimed: while no valid API key is available, no run can be
\* started, no request is ever sent and the page reports "disconnected".
C8_NoValidKeyDisables == ~KeyIsValid(env) => (NothingToRun /\ ShowsDisconnected)

\* C8 as amended: while there is no client (GROQ_API_KEY is unset or empty,
\* or Groq(...) raised), no run can be started, no request is ever sent and
\* the page reports "disconnected" from its first rendering on.
C8_NoClientDisables == client = "None" => (NothingToRun /\ ShowsDisconnected)

\* The page was rendered without a client though a key is set: Groq(...)
\* raised.
C8_Witness ==
    /\ ui.rendered
    /\ client = "None"
    /\ env.GROQ_API_KEY.value = "gsk_live"
    /\ ui.init_error

\* C9: a run that sent a request ends either with the spreadsheet built
\* from the validated records and offered for download, or with an error
\* on the page.
C9_SpreadsheetOrError ==
    run.requests > 0 =>
        \/ (run.writer_calls = 1 /\ ui.download_button /\ ~ui.llm_error)
        \/ (ui.llm_error /\ ~ui.download_button)

\* The document text inside a system prompt.
DocumentTextOf(prompt) == SubSeq(prompt, 2, Len(prompt) - 1)

\* C10: the text handed to the LLM in a run is the text of the file that
\* is uploaded at the time of the run, and the cached pdf_content is never
\* the text of a file uploaded before.
C10_TextIsOfCurrentFile ==
    /\ run.requests > 0 =>
          DocumentTextOf(run.request) = read_pdf_text(uploaded_file.pdf).text
    /\ (uploaded_file.present /\ session_state.has_pdf_content) =>
          session_state.pdf_content = read_pdf_text(uploaded_file.pdf).text

=============================================================================
